---- MODULE Spec2Model ----
(***************************************************************************)
(* Model of package kvs (src/kvs.go): a gob-encoding key-value facade over *)
(* one bucket of a bolt database file.                                     *)
(*                                                                         *)
(* Spec      Store handles opening, using and closing one backing file, a *)
(*           whole call per step (Open, Put, Get, Delete, Close, and the   *)
(*           runtime finalizer of an engine handle nothing refers to).     *)
(* SpecData  one open Store and one caller, with every key and value.      *)
(* SpecTx    one open Store used by several goroutines, each call split    *)
(*           into the steps of its bolt transaction.                       *)
(*                                                                         *)
(* bolt and encoding/gob are dependencies of kvs.go; the operators that    *)
(* stand for them follow their behaviour at the call sites named in the    *)
(* comments.                                                               *)
(***************************************************************************)
EXTENDS Naturals, Sequences, FiniteSets

\* Number of Store handles (Open calls' results) that compete for the file.
NStores == 2

Stores == 1..NStores

\* Number of goroutines that call into one open Store at the same time.
NCallers == 2

Callers == 1..NCallers

\* string keys as byte sequences: the empty key, "a", its extension "ab"
\* (so "a" is a proper prefix of a stored key) and "b" (sorts after both).
Keys == {<<>>, <<97>>, <<97, 98>>, <<98>>}

\* Go values passed as interface{}: the nil interface, strings, and a struct
\* type T struct{ A int } whose field may hold the zero value.
Nil == [type |-> "nil", val |-> <<>>]

Str(s) == [type |-> "string", val |-> s]

T(a) == [type |-> "T", val |-> <<a>>]

\* Largest value of T's field.
MaxField == 1

\* The values callers put: "", "hi" and T{0} .. T{MaxField}.
Values == {Str(<<>>), Str(<<104, 105>>)} \cup {T(a) : a \in 0..MaxField}

\* What the pointer passed to Get points at before the call: nothing (a nil
\* argument, the existence check), a zero string, or a T that is zero or
\* already holds a value.
Dests == {Nil, Str(<<>>)} \cup {T(a) : a \in 0..MaxField}

\* The smaller inputs of the calls in Spec, where Stores come and go.
LifeKeys == {<<97>>, <<97, 98>>}

LifeValues == {Nil, T(MaxField)}

LifeDests == {T(0)}

\* The zero value of a value's type (what `var x T` holds).
Zero(v) == IF v.type = "string" THEN Str(<<>>) ELSE IF v.type = "T" THEN T(0) ELSE Nil

(***************************************************************************)
(* encoding/gob, as used at lines 51 and 70-71.                            *)
(* A message is the type id followed by the value.  A string is sent with  *)
(* its length, also when empty.  A struct is sent as (field delta, value)  *)
(* pairs for its NON-ZERO fields only, closed by a 0 delta; the decoder    *)
(* assigns only the fields it receives.                                    *)
(***************************************************************************)
TypeId(t) == IF t = "string" THEN 6 ELSE 65

RECURSIVE EncodeFields(_, _, _)
EncodeFields(fields, i, prev) ==
  IF i > Len(fields) THEN <<0>>
  ELSE IF fields[i] = 0 THEN EncodeFields(fields, i + 1, prev)
  ELSE <<i - prev, fields[i]>> \o EncodeFields(fields, i + 1, i)

\* gob.NewEncoder(&buf).Encode(value); buf.Bytes()
Encode(v) ==
  IF v.type = "string" THEN <<TypeId("string"), Len(v.val)>> \o v.val
  ELSE <<TypeId(v.type)>> \o EncodeFields(v.val, 1, 0)

RECURSIVE DecodeFields(_, _, _)
DecodeFields(bytes, fields, prev) ==
  IF bytes = <<>> \/ Head(bytes) = 0 THEN fields
  ELSE LET i == prev + bytes[1]
       IN DecodeFields(SubSeq(bytes, 3, Len(bytes)), [fields EXCEPT ![i] = bytes[2]], i)

\* gob.NewDecoder(bytes.NewReader(v)).Decode(value), value pointing at dest.
Decode(bytes, dest) ==
  IF Head(bytes) # TypeId(dest.type)
  THEN [err |-> "gob: type mismatch", out |-> dest]
  ELSE IF dest.type = "string"
  THEN [err |-> "ok", out |-> Str(SubSeq(bytes, 3, 2 + bytes[2]))]
  ELSE [err |-> "ok", out |-> [dest EXCEPT !.val = DecodeFields(Tail(bytes), dest.val, 0)]]

(***************************************************************************)
(* The bucket "kvs" of the bolt file: entries kept in byte order of key.   *)
(***************************************************************************)
RECURSIVE KeyLess(_, _)
KeyLess(a, b) ==
  IF b = <<>> THEN FALSE
  ELSE IF a = <<>> THEN TRUE
  ELSE IF Head(a) # Head(b) THEN Head(a) < Head(b)
  ELSE KeyLess(Tail(a), Tail(b))

Min(S) == CHOOSE x \in S : \A y \in S : x <= y

\* cursor.Seek(key): the position of the first entry whose key is >= key,
\* 0 when there is none (bolt returns a nil key).
Seek(es, key) ==
  LET at == {i \in 1..Len(es) : ~KeyLess(es[i].key, key)}
  IN IF at = {} THEN 0 ELSE Min(at)

\* Lookup with the comparison of the found key left out.
LookupNoCompare(es, key) == Seek(es, key)

\* `k == nil || string(k) != key` negated: the position of the exact match, or 0.
Lookup(es, key) ==
  LET i == Seek(es, key)
  IN IF i = 0 \/ es[i].key # key THEN 0 ELSE i

\* BucketPut that inserts a new entry even when the key is already there.
BucketPutAppend(es, key, value) ==
  IF key = <<>> THEN [err |-> "ErrKeyRequired", es |-> es]
  ELSE LET i == Seek(es, key)
           e == [key |-> key, value |-> value]
       IN [err |-> "ok",
           es  |-> IF i = 0 THEN Append(es, e)
                   ELSE SubSeq(es, 1, i - 1) \o <<e>> \o SubSeq(es, i, Len(es))]

\* tx.Bucket(bucketName).Put(key, value): create or replace; bolt refuses the
\* empty key.
BucketPut(es, key, value) ==
  IF key = <<>> THEN [err |-> "ErrKeyRequired", es |-> es]
  ELSE LET i == Seek(es, key)
           e == [key |-> key, value |-> value]
       IN [err |-> "ok",
           es  |-> IF i = 0 THEN Append(es, e)
                   ELSE IF es[i].key = key THEN [es EXCEPT ![i] = e]
                   ELSE SubSeq(es, 1, i - 1) \o <<e>> \o SubSeq(es, i, Len(es))]

\* CursorDelete that also removes the entry after the cursor's.
CursorDeleteTwo(es, i) == SubSeq(es, 1, i - 1) \o SubSeq(es, i + 2, Len(es))

\* cursor.Delete(): removes the entry the cursor is positioned on.
CursorDelete(es, i) == SubSeq(es, 1, i - 1) \o SubSeq(es, i + 1, Len(es))

(***************************************************************************)
(* The calls of kvs.go as functions of the handle's state and the bucket.  *)
(* status is the caller's handle: "Unopened" (a nil *KVStore, as returned  *)
(* by a failed Open), "Open", or "Closed" (db.Close() has run).            *)
(***************************************************************************)

\* DbOpened without the check of the opened flag.
DbOpenedAlways(status) == TRUE

\* db.Update / db.View on the handle: bolt begins a transaction only while the
\* DB is opened, and returns ErrDatabaseNotOpen otherwise.
DbOpened(status) == status = "Open"

\* PutCall with the nil check made inside the transaction.
PutCallNilLate(status, es, key, value) ==
  IF status = "Unopened" THEN [res |-> "panic", es |-> es]
  ELSE IF status # "Open" THEN [res |-> "ErrDatabaseNotOpen", es |-> es]
  ELSE IF value = Nil THEN [res |-> "ErrBadValue", es |-> es]
  ELSE LET r == BucketPut(es, key, Encode(value))
       IN [res |-> r.err, es |-> r.es]

\* KVStore.Put
PutCall(status, es, key, value) ==
  IF value = Nil THEN [res |-> "ErrBadValue", es |-> es]
  ELSE IF status = "Unopened" THEN [res |-> "panic", es |-> es]
  ELSE IF ~DbOpened(status) THEN [res |-> "ErrDatabaseNotOpen", es |-> es]
  ELSE LET r == BucketPut(es, key, Encode(value))
       IN [res |-> r.err, es |-> r.es]

\* GetCall that returns success without decoding into the destination.
GetCallNoDecode(status, es, key, dest) ==
  IF status # "Open" THEN [res |-> "ErrDatabaseNotOpen", out |-> dest]
  ELSE IF Lookup(es, key) = 0 THEN [res |-> "ErrNotFound", out |-> dest]
  ELSE [res |-> "ok", out |-> dest]

\* KVStore.Get; dest is what the pointer argument points at (Nil: no pointer).
GetCall(status, es, key, dest) ==
  IF status = "Unopened" THEN [res |-> "panic", out |-> dest]
  ELSE IF ~DbOpened(status) THEN [res |-> "ErrDatabaseNotOpen", out |-> dest]
  ELSE LET i == Lookup(es, key)
       IN IF i = 0 THEN [res |-> "ErrNotFound", out |-> dest]
          ELSE IF dest = Nil THEN [res |-> "ok", out |-> dest]
          ELSE LET d == Decode(es[i].value, dest)
               IN [res |-> d.err, out |-> d.out]

\* KVStore.Delete
DeleteCall(status, es, key) ==
  IF status = "Unopened" THEN [res |-> "panic", es |-> es]
  ELSE IF ~DbOpened(status) THEN [res |-> "ErrDatabaseNotOpen", es |-> es]
  ELSE LET i == Lookup(es, key)
       IN IF i = 0 THEN [res |-> "ErrNotFound", es |-> es]
          ELSE [res |-> "ok", es |-> CursorDelete(es, i)]

\* BoltOpen without the file lock.
BoltOpenNoLock(lock) == "ok"

\* bolt.Open(path, 0640, opts): opens or creates the file, then takes the
\* exclusive flock, giving up with ErrTimeout (after Options.Timeout) while
\* another open file description, of any process, this one included, holds
\* it; on failure bolt closes what it opened.  lock is the holder, 0 if free.
BoltOpen(lock) == IF lock # 0 THEN "ErrTimeout" ELSE "ok"

VARIABLES
  st,         \* st[s]: state of Store handle s
  flock,      \* the Store whose engine handle holds the file lock, 0 if free
  leaked,     \* the lock holder is an engine handle no Store refers to
  hasBucket,  \* the bucket "kvs" exists in the file
  entries,    \* the bucket's entries, in key order: <<[key, value], ...>>
  written,    \* history: per key, the value of the last successful Put not
              \* followed by a successful Delete (Nil if none)
  before,     \* history: entries as they were before the last call
  last,       \* history: the last call, its arguments and its results
  thr,        \* SpecTx: thr[g], the call goroutine g is in and how far it is
  rwlock,     \* SpecTx: the goroutine holding bolt's writer lock, 0 if free
  readers     \* SpecTx: the goroutines holding the mmap lock for reading

vars == <<st, flock, leaked, hasBucket, entries, written, before, last,
          thr, rwlock, readers>>

txVars == <<thr, rwlock, readers>>

apiVars == <<st, flock, leaked, hasBucket, written, before, last>>

NoOp == [op |-> "none", s |-> 0, key |-> <<>>, val |-> Nil, res |-> "ok", out |-> Nil]

\* A goroutine outside any call.
Idle == [pc |-> "idle", op |-> "none", key |-> <<>>, val |-> Nil, es |-> <<>>,
         res |-> "ok", out |-> Nil, waited |-> FALSE]

Init ==
  /\ thr = [g \in Callers |-> Idle]
  /\ rwlock = 0
  /\ readers = {}
  /\ st = [s \in Stores |-> "Unopened"]
  /\ flock = 0
  /\ leaked = FALSE
  /\ hasBucket = FALSE
  /\ entries = <<>>
  /\ written = [k \in Keys |-> Nil]
  /\ before = <<>>
  /\ last = NoOp

\* Open: bolt.Open, then an Update that creates the bucket if absent.  ioOk is
\* whether that Update commits; when it does not, Open returns (nil, err) and
\* the engine handle it opened is neither closed nor returned.
Open(s, ioOk) ==
  /\ st[s] = "Unopened"
  /\ LET r == BoltOpen(flock)
     IN IF r # "ok"
        THEN /\ last' = [NoOp EXCEPT !.op = "Open", !.s = s, !.res = r]
             /\ UNCHANGED <<st, flock, leaked, hasBucket>>
        ELSE IF ~ioOk
        THEN /\ last' = [NoOp EXCEPT !.op = "Open", !.s = s, !.res = "IOError"]
             /\ flock' = s
             /\ leaked' = TRUE
             /\ UNCHANGED <<st, hasBucket>>
        ELSE /\ last' = [NoOp EXCEPT !.op = "Open", !.s = s]
             /\ flock' = s
             /\ leaked' = FALSE
             /\ hasBucket' = TRUE
             /\ st' = [st EXCEPT ![s] = "Open"]
  /\ before' = entries
  /\ UNCHANGED txVars
  /\ UNCHANGED <<entries, written>>

Put(s, key, value) ==
  /\ LET r == PutCall(st[s], entries, key, value)
     IN /\ entries' = r.es
        /\ written' = IF r.res = "ok" THEN [written EXCEPT ![key] = value] ELSE written
        /\ last' = [op |-> "Put", s |-> s, key |-> key, val |-> value,
                    res |-> r.res, out |-> Nil]
  /\ before' = entries
  /\ UNCHANGED txVars
  /\ UNCHANGED <<st, flock, leaked, hasBucket>>

Get(s, key, dest) ==
  /\ LET r == GetCall(st[s], entries, key, dest)
     IN last' = [op |-> "Get", s |-> s, key |-> key, val |-> dest,
                 res |-> r.res, out |-> r.out]
  /\ before' = entries
  /\ UNCHANGED txVars
  /\ UNCHANGED <<st, flock, leaked, hasBucket, entries, written>>

Delete(s, key) ==
  /\ LET r == DeleteCall(st[s], entries, key)
     IN /\ entries' = r.es
        /\ written' = IF r.res = "ok" THEN [written EXCEPT ![key] = Nil] ELSE written
        /\ last' = [NoOp EXCEPT !.op = "Delete", !.s = s, !.key = key, !.res = r.res]
  /\ before' = entries
  /\ UNCHANGED txVars
  /\ UNCHANGED <<st, flock, leaked, hasBucket>>

\* Close: db.Close() releases the flock and the file; on a closed DB it does
\* nothing; on a nil *KVStore it panics.
Close(s) ==
  /\ IF st[s] = "Unopened"
     THEN /\ last' = [NoOp EXCEPT !.op = "Close", !.s = s, !.res = "panic"]
          /\ UNCHANGED <<st, flock>>
     ELSE /\ last' = [NoOp EXCEPT !.op = "Close", !.s = s]
          /\ st' = [st EXCEPT ![s] = "Closed"]
          /\ flock' = IF st[s] = "Open" /\ flock = s THEN 0 ELSE flock
  /\ before' = entries
  /\ UNCHANGED txVars
  /\ UNCHANGED <<leaked, hasBucket, entries, written>>

\* The Go runtime's finalizer of the *os.File inside an engine handle that
\* nothing refers to any more closes the descriptor, which drops its flock.
\* It runs at some collection, or never.
Finalize ==
  /\ leaked
  /\ flock' = 0
  /\ leaked' = FALSE
  /\ last' = [NoOp EXCEPT !.op = "gc"]
  /\ before' = entries
  /\ UNCHANGED txVars
  /\ UNCHANGED <<st, hasBucket, entries, written>>

\* Store handles opening, using and closing one backing file.
Next ==
  \/ \E s \in Stores, ioOk \in BOOLEAN : Open(s, ioOk)
  \/ \E s \in Stores, key \in LifeKeys, value \in LifeValues : Put(s, key, value)
  \/ \E s \in Stores, key \in LifeKeys, dest \in LifeDests : Get(s, key, dest)
  \/ \E s \in Stores, key \in LifeKeys : Delete(s, key)
  \/ \E s \in Stores : Close(s)
  \/ Finalize

Spec == Init /\ [][Next]_vars

\* One Store, opened on a new file, used by one caller with every key and value.
InitData ==
  /\ thr = [g \in Callers |-> Idle]
  /\ rwlock = 0
  /\ readers = {}
  /\ st = [s \in Stores |-> IF s = 1 THEN "Open" ELSE "Unopened"]
  /\ flock = 1
  /\ leaked = FALSE
  /\ hasBucket = TRUE
  /\ entries = <<>>
  /\ written = [k \in Keys |-> Nil]
  /\ before = <<>>
  /\ last = [NoOp EXCEPT !.op = "Open", !.s = 1]

NextData ==
  \/ \E key \in Keys, value \in Values \cup {Nil} : Put(1, key, value)
  \/ \E key \in Keys, dest \in Dests : Get(1, key, dest)
  \/ \E key \in Keys : Delete(1, key)

SpecData == InitData /\ [][NextData]_vars

(***************************************************************************)
(* SpecTx: the calls of several goroutines on one open Store, step by step.*)
(*                                                                         *)
(* Put and Delete run their closure in db.Update: bolt takes the writer    *)
(* lock (one read-write transaction at a time), gives the transaction a    *)
(* private copy-on-write view of the committed bucket, and on a nil return *)
(* commits: it writes the new pages and then the meta page, which makes    *)
(* the transaction's bucket the committed one; on an error return it rolls *)
(* back.  A commit that must extend the data file past the memory map      *)
(* remaps it under the mmap lock, which every open transaction holds for   *)
(* reading: the writer waits for the read-only transactions in flight, and *)
(* read-only transactions that begin meanwhile wait for the remap.         *)
(* Get runs its closure in db.View: bolt takes the mmap lock for reading   *)
(* and reads the bucket committed at that moment until the rollback.       *)
(***************************************************************************)
IsWrite(t) == t.op \in {"Put", "Delete"}

\* RWLockFree for an Update that does not take the writer lock.
RWLockFreeAlways(lock) == TRUE

\* db.rwlock.Lock() in db.Update: can the writer lock be taken?
RWLockFree(lock) == lock = 0

\* MmapReadable for a Get that runs in db.Update and so needs the writer lock.
MmapReadableNoWriter(ts, lock) == lock = 0 /\ \A h \in Callers : ts[h].pc # "remap"

\* db.mmaplock.RLock() in db.View: can a read-only transaction begin?  Not
\* while a writer holds or awaits the mmap lock for a remap.
MmapReadable(ts, lock) == \A h \in Callers : ts[h].pc # "remap"

\* The caller enters Put, Get or Delete.  Put returns ErrBadValue for a nil
\* value at once, and otherwise encodes the value before it calls db.Update.
Call(g, op, key, val) ==
  /\ thr[g].pc = "idle"
  /\ thr' = [thr EXCEPT ![g] =
       IF op = "Put" /\ val = Nil
       THEN [Idle EXCEPT !.pc = "done", !.op = op, !.key = key, !.val = val,
                         !.res = PutCall("Open", entries, key, val).res]
       ELSE [Idle EXCEPT !.pc = "begin", !.op = op, !.key = key, !.val = val]]
  /\ UNCHANGED <<entries, rwlock, readers>>
  /\ UNCHANGED apiVars

\* db.Update begins the read-write transaction.  History: a Delete that is
\* waiting for the lock at the moment a Delete of the same key takes it is
\* marked.
BeginRW(g) ==
  /\ thr[g].pc = "begin" /\ IsWrite(thr[g])
  /\ RWLockFree(rwlock)
  /\ rwlock' = g
  /\ thr' = [h \in Callers |->
       IF h = g THEN [thr[g] EXCEPT !.pc = "body", !.es = entries]
       ELSE IF /\ thr[h].pc = "begin" /\ thr[h].op = "Delete"
               /\ thr[g].op = "Delete" /\ thr[g].key = thr[h].key
       THEN [thr[h] EXCEPT !.waited = TRUE]
       ELSE thr[h]]
  /\ UNCHANGED <<entries, readers>>
  /\ UNCHANGED apiVars

\* db.View begins the read-only transaction.
BeginRO(g) ==
  /\ thr[g].pc = "begin" /\ thr[g].op = "Get"
  /\ MmapReadable(thr, rwlock)
  /\ readers' = readers \cup {g}
  /\ thr' = [thr EXCEPT ![g] = [@ EXCEPT !.pc = "body", !.es = entries]]
  /\ UNCHANGED <<entries, rwlock>>
  /\ UNCHANGED apiVars

\* The closure runs on the transaction's bucket.
Body(g) ==
  /\ thr[g].pc = "body"
  /\ LET t == thr[g]
     IN thr' = [thr EXCEPT ![g] =
          IF t.op = "Put"
          THEN LET r == PutCall("Open", t.es, t.key, t.val)
               IN [t EXCEPT !.es = r.es, !.res = r.res,
                            !.pc = IF r.res = "ok" THEN "commit" ELSE "rollback"]
          ELSE IF t.op = "Delete"
          THEN LET r == DeleteCall("Open", t.es, t.key)
               IN [t EXCEPT !.es = r.es, !.res = r.res,
                            !.pc = IF r.res = "ok" THEN "commit" ELSE "rollback"]
          ELSE LET r == GetCall("Open", t.es, t.key, t.val)
               IN [t EXCEPT !.res = r.res, !.out = r.out, !.pc = "rollback"]]
  /\ UNCHANGED <<entries, rwlock, readers>>
  /\ UNCHANGED apiVars

\* tx.Commit of a read-write transaction.  grow: the new pages do not fit the
\* memory map, so the commit first has to remap.
Commit(g, grow) ==
  /\ thr[g].pc = "commit"
  /\ IF grow
     THEN /\ thr' = [thr EXCEPT ![g] = [@ EXCEPT !.pc = "remap"]]
          /\ UNCHANGED <<entries, rwlock>>
     ELSE /\ entries' = thr[g].es
          /\ rwlock' = IF rwlock = g THEN 0 ELSE rwlock
          /\ thr' = [thr EXCEPT ![g] = [@ EXCEPT !.pc = "done", !.es = <<>>]]
  /\ UNCHANGED readers
  /\ UNCHANGED apiVars

\* db.mmap under db.mmaplock.Lock(), possible once no read-only transaction
\* is open; the commit then completes.
Remap(g) ==
  /\ thr[g].pc = "remap"
  /\ readers = {}
  /\ entries' = thr[g].es
  /\ rwlock' = IF rwlock = g THEN 0 ELSE rwlock
  /\ thr' = [thr EXCEPT ![g] = [@ EXCEPT !.pc = "done", !.es = <<>>]]
  /\ UNCHANGED readers
  /\ UNCHANGED apiVars

\* tx.Rollback: of a read-write transaction whose closure returned an error,
\* and of every read-only transaction.
Rollback(g) ==
  /\ thr[g].pc = "rollback"
  /\ IF IsWrite(thr[g])
     THEN /\ rwlock' = IF rwlock = g THEN 0 ELSE rwlock
          /\ UNCHANGED readers
     ELSE /\ readers' = readers \ {g}
          /\ UNCHANGED rwlock
  /\ thr' = [thr EXCEPT ![g] = [@ EXCEPT !.pc = "done", !.es = <<>>]]
  /\ UNCHANGED entries
  /\ UNCHANGED apiVars

\* The call returns to its caller (its transaction, and with it the
\* transaction's view of the bucket, ended at the step before).
Return(g) ==
  /\ thr[g].pc = "done"
  /\ thr' = [thr EXCEPT ![g] = Idle]
  /\ UNCHANGED <<entries, rwlock, readers>>
  /\ UNCHANGED apiVars

TxKeys == LifeKeys

TxValues == {Nil, T(MaxField)}

TxDests == {T(0)}

NextTx ==
  \/ \E g \in Callers, key \in TxKeys, val \in TxValues : Call(g, "Put", key, val)
  \/ \E g \in Callers, key \in TxKeys, dest \in TxDests : Call(g, "Get", key, dest)
  \/ \E g \in Callers, key \in TxKeys : Call(g, "Delete", key, Nil)
  \/ \E g \in Callers : BeginRW(g)
  \/ \E g \in Callers : BeginRO(g)
  \/ \E g \in Callers : Body(g)
  \/ \E g \in Callers, grow \in BOOLEAN : Commit(g, grow)
  \/ \E g \in Callers : Remap(g)
  \/ \E g \in Callers : Rollback(g)
  \/ \E g \in Callers : Return(g)

SpecTx == InitData /\ [][NextTx]_vars

(***************************************************************************)
(* Vocabulary of the properties.                                           *)
(***************************************************************************)
Positions(es, k) == {i \in 1..Len(es) : es[i].key = k}

Present(es, k) == Positions(es, k) # {}

\* The stored byte strings under key k (a set: empty when k is absent).
Stored(es, k) == {es[i].value : i \in Positions(es, k)}

Sorted(es) == \A i \in 1..Len(es) - 1 : KeyLess(es[i].key, es[i + 1].key)

IsProperPrefix(a, b) == Len(a) < Len(b) /\ SubSeq(b, 1, Len(a)) = a

OnOpen == last.s \in Stores /\ st[last.s] = "Open"

TypeOK ==
  /\ st \in [Stores -> {"Unopened", "Open", "Closed"}]
  /\ flock \in {0} \cup Stores
  /\ Sorted(entries)

(***************************************************************************)
(* C1.  Round trip.                                                        *)
(***************************************************************************)

StaleDestination ==
  /\ OnOpen /\ last.op = "Get" /\ last.res = "ok"
  /\ written[last.key] = T(0)
  /\ last.val = T(MaxField) /\ last.out = T(MaxField)

C2_ExactMatch ==
  /\ \A k \in Keys : Present(entries, k) <=> written[k] # Nil
  /\ (OnOpen /\ last.op \in {"Get", "Delete"} /\ ~Present(before, last.key))
       => /\ last.res = "ErrNotFound"
          /\ entries = before
          /\ last.out = last.val

\* A lookup of an absent key whose seek landed on a stored key that has the
\* looked-up key as a proper prefix.
C2_Witness ==
  /\ OnOpen /\ last.op \in {"Get", "Delete"} /\ last.res = "ErrNotFound"
  /\ last.key # <<>>
  /\ Seek(before, last.key) # 0
  /\ IsProperPrefix(last.key, before[Seek(before, last.key)].key)

(***************************************************************************)
(* C3.  Last write wins, one entry per key.                                *)
(***************************************************************************)

C4_DeleteExactlyOne ==
  (OnOpen /\ last.op = "Delete" /\ Present(before, last.key))
    => /\ last.res = "ok"
       /\ ~Present(entries, last.key)
       /\ Len(entries) = Len(before) - 1
       /\ \A k \in Keys \ {last.key} : Stored(entries, k) = Stored(before, k)
       /\ \A d \in Dests : GetCall("Open", entries, last.key, d).res = "ErrNotFound"
       /\ DeleteCall("Open", entries, last.key).res = "ErrNotFound"

\* A Delete of a key that had a successor in the bucket, which is still there.
C4_Witness ==
  /\ OnOpen /\ last.op = "Delete" /\ last.res = "ok"
  /\ Lookup(before, last.key) # 0
  /\ Lookup(before, last.key) < Len(before)
  /\ Present(entries, before[Lookup(before, last.key) + 1].key)

(***************************************************************************)
(* C5.  Put of a nil value.                                                *)
(***************************************************************************)

\* C5: a Put of the nil value fails with ErrBadValue whatever the state of the
\* Store (the engine is never asked: a closed or never-opened Store gives the
\* same answer), and the bucket is as before: a Get of a key still returns
\* the value last put under it, or ErrNotFound if there is none.
C5_NilRejected ==
  (last.op = "Put" /\ last.val = Nil)
    => /\ last.res = "ErrBadValue"
       /\ entries = before
       /\ \A k \in Keys :
            GetCall("Open", entries, k, Zero(written[k]))
              = IF written[k] = Nil
                THEN [res |-> "ErrNotFound", out |-> Nil]
                ELSE [res |-> "ok", out |-> written[k]]

\* A nil Put on an Open store under a key that holds a value.
C5_Witness ==
  /\ OnOpen /\ last.op = "Put" /\ last.val = Nil
  /\ written[last.key] # Nil

(***************************************************************************)
(* C6.  Lifecycle.                                                         *)
(***************************************************************************)

\* What a call on a Store that is not Open answers.
Refused(status, op, value) ==
  IF op = "Put" /\ value = Nil THEN "ErrBadValue"
  ELSE IF status = "Unopened" THEN "panic"
  ELSE "ErrDatabaseNotOpen"

\* C6: a Store becomes Open only from Unopened and only by an Open call that
\* returned success; it becomes Closed only from Open and only by Close; a
\* Closed Store stays Closed.  A Put, Get or Delete on a Store that is not
\* Open fails with the outcome fixed by the Store's state and the call, and
\* neither changes the bucket nor fills the destination.  The bucket exists
\* while a Store is Open.
C6_Lifecycle ==
  [][ /\ \A s \in Stores :
           /\ (st'[s] = "Open" /\ st[s] # "Open")
                => (st[s] = "Unopened" /\ last'.op = "Open"
                      /\ last'.s = s /\ last'.res = "ok")
           /\ (st'[s] = "Closed" /\ st[s] # "Closed")
                => (st[s] = "Open" /\ last'.op = "Close" /\ last'.s = s)
           /\ st[s] = "Closed" => st'[s] = "Closed"
           /\ st'[s] = "Open" => hasBucket'
      /\ (last'.op \in {"Put", "Get", "Delete"} /\ st[last'.s] # "Open")
           => /\ last'.res = Refused(st[last'.s], last'.op, last'.val)
              /\ entries' = entries
              /\ last'.op = "Get" => last'.out = last'.val
    ]_vars

\* A Get on a Closed store whose file holds entries.
C6_Witness ==
  /\ last.op = "Get" /\ st[last.s] = "Closed"
  /\ last.res = "ErrDatabaseNotOpen"
  /\ Present(entries, last.key)

(***************************************************************************)
(* C7.  Exclusive ownership of the backing file.                           *)
(***************************************************************************)

\* C7: at most one Store is Open on the file, and it is the holder of the
\* file lock; an Open call made while the lock is held returns ErrTimeout and
\* no Store, and changes neither the holder, nor any Store, nor the file.
C7_Exclusive ==
  [][ /\ Cardinality({s \in Stores : st'[s] = "Open"}) <= 1
      /\ \A s \in Stores : st'[s] = "Open" => (flock' = s /\ ~leaked')
      /\ (last'.op = "Open" /\ flock # 0)
           => /\ last'.res = "ErrTimeout"
              /\ UNCHANGED <<st, flock, leaked, hasBucket, entries>>
    ]_vars

\* An Open that timed out against an Open store whose file holds entries.
C7_Witness ==
  /\ last.op = "Open" /\ last.res = "ErrTimeout"
  /\ st[last.s] = "Unopened"
  /\ \E s \in Stores \ {last.s} : st[s] = "Open" /\ flock = s
  /\ entries # <<>>

(***************************************************************************)
(* C8.  A failed Open.                                                     *)
(***************************************************************************)

\* C8: when Open returned an error, the caller has no Store and its call
\* holds neither the file lock nor an open engine handle on the path.
C8_FailedOpenHoldsNothing ==
  (last.op = "Open" /\ last.res # "ok")
    => /\ st[last.s] = "Unopened"
       /\ flock # last.s
       /\ ~leaked

(***************************************************************************)
(* C9.  Writers are serialized; a write call is one atomic step.           *)
(***************************************************************************)
InWriteTx(t) == IsWrite(t) /\ t.pc \in {"body", "commit", "remap", "rollback"}

Completes(g) == thr[g].pc # "done" /\ thr'[g].pc = "done"

\* C9: at most one read-write transaction is in flight, and its goroutine
\* holds the writer lock; the committed bucket changes only at the step at
\* which a Put or Delete completes, and at that step the bucket and the
\* call's result are those of the whole call applied to the bucket committed
\* just before.  The calls thus take effect one at a time in the order in
\* which they complete (a Delete of a key another Delete has just removed
\* finds it absent).
C9_WritersSerialized ==
  [][ /\ Cardinality({g \in Callers : InWriteTx(thr'[g])}) <= 1
      /\ \A g \in Callers : InWriteTx(thr'[g]) => rwlock' = g
      /\ \A g \in Callers :
           (Completes(g) /\ IsWrite(thr'[g]))
             => LET t == thr'[g]
                    r == IF t.op = "Put"
                         THEN PutCall("Open", entries, t.key, t.val)
                         ELSE DeleteCall("Open", entries, t.key)
                IN entries' = r.es /\ t.res = r.res
      /\ (\A g \in Callers : ~(Completes(g) /\ IsWrite(thr'[g])))
           => entries' = entries
    ]_vars

\* Two Deletes of one key, both answered: the one that had to wait for the
\* writer lock got ErrNotFound, the other succeeded.
C9_Witness ==
  \E g, h \in Callers :
    /\ g # h
    /\ thr[g].pc = "done" /\ thr[h].pc = "done"
    /\ thr[g].op = "Delete" /\ thr[h].op = "Delete"
    /\ thr[g].key = thr[h].key
    /\ thr[g].res = "ok" /\ ~thr[g].waited
    /\ thr[h].res = "ErrNotFound" /\ thr[h].waited

(***************************************************************************)
(* C10.  Get is a read-only snapshot read.                                 *)
(***************************************************************************)
InReadTx(t) == t.op = "Get" /\ t.pc \in {"body", "rollback"}

\* The read side: a Get reads the bucket committed
\* when its transaction began, whatever is committed while it runs; its result
\* is that of the whole call on that bucket; and no step of a Get changes the
\* committed bucket.
SnapshotRead ==
  \A g \in Callers :
    /\ (thr[g].op = "Get" /\ thr[g].pc = "begin" /\ thr'[g].pc = "body")
         => thr'[g].es = entries
    /\ (InReadTx(thr[g]) /\ InReadTx(thr'[g])) => thr'[g].es = thr[g].es
    /\ (InReadTx(thr[g]) /\ Completes(g))
         => LET r == GetCall("Open", thr[g].es, thr[g].key, thr[g].val)
            IN thr'[g].res = r.res /\ thr'[g].out = r.out
    /\ (thr[g].op = "Get" /\ thr'[g] # thr[g]) => entries' = entries

\* C10 as stated: a Get that is ready to begin can begin whatever the writers
\* do, a writer is never made to wait by the Gets in flight, and Get is a
\* read-only snapshot read.
C10_NeverBlocked ==
  /\ [](\A g \in Callers :
          /\ (thr[g].op = "Get" /\ thr[g].pc = "begin") => ENABLED BeginRO(g)
          /\ (IsWrite(thr[g]) /\ thr[g].pc = "begin")
               => (ENABLED BeginRW(g) <=> rwlock = 0)
          /\ (IsWrite(thr[g]) /\ thr[g].pc = "remap") => ENABLED Remap(g))
  /\ [][SnapshotRead]_vars

\* C10 amended: a Get takes no writer lock: it begins while a read-write
\* transaction is in flight, and a writer begins, runs and commits while
\* Gets are in flight, EXCEPT when a commit has to remap the data file: that
\* commit waits until the Gets in flight have finished, and a Get that would
\* begin meanwhile waits for the remap.  Get is a read-only snapshot read.
C10_SnapshotRead ==
  /\ [](\A g \in Callers :
          /\ (thr[g].op = "Get" /\ thr[g].pc = "begin")
               => (ENABLED BeginRO(g) <=> \A h \in Callers : thr[h].pc # "remap")
          /\ (IsWrite(thr[g]) /\ thr[g].pc = "begin")
               => (ENABLED BeginRW(g) <=> rwlock = 0)
          /\ (IsWrite(thr[g]) /\ thr[g].pc = "body") => ENABLED Body(g)
          /\ (IsWrite(thr[g]) /\ thr[g].pc = "commit") => ENABLED Commit(g, FALSE)
          /\ (IsWrite(thr[g]) /\ thr[g].pc = "remap")
               => (ENABLED Remap(g) <=> readers = {}))
  /\ [][SnapshotRead]_vars

\* A Get whose transaction is still open holds the value it read, while the
\* key has since been deleted from the committed bucket and another writer is
\* in its transaction.
C10_Witness ==
  \E g, h \in Callers :
    /\ thr[g].op = "Get" /\ thr[g].pc = "rollback"
    /\ thr[g].res = "ok" /\ thr[g].out = T(MaxField)
    /\ ~Present(entries, thr[g].key)
    /\ InWriteTx(thr[h])
====
